---- MODULE Spec2Model ----
(***************************************************************************)
(* Model of langchain/document_loaders/rss.py: the two default parsing     *)
(* functions, RssLoader.parse_rss and RssLoader.load.                      *)
(*                                                                         *)
(* A feed document is a sequence of item nodes; an item node is the        *)
(* sequence of its child elements in document order; an element is a       *)
(* record [tag, text] whose tag is a namespace-qualified name.  A Python   *)
(* dict is a function whose DOMAIN is its key set; a Python list is a      *)
(* sequence; None is the string NoneValue.                                 *)
(***************************************************************************)
EXTENDS Integers, Sequences, FiniteSets, TLC

\* ------------------------------------------------------------- bounds
MaxFeeds == 2
MaxItems == 3
MaxElements == 2
MaxCategories == 2

\* ------------------------------------------------------------- values
NoneValue == "None"

EmptyDict == [k \in {} |-> ""]

Texts == {"a", "b"}

URLs == << "u1", "u2", "u3", "u4" >>

\* self.namespaces (prefix -> namespace URI)
namespaces ==
    ("content" :> "http://purl.org/rss/1.0/modules/content/")
    @@ ("dc" :> "http://purl.org/dc/elements/1.1/")

\* self.fields.  A path "./p:name" is written [prefix |-> "p", local |-> "name"]
\* ("./name" has the empty prefix); the optional keys "multi" and "type" are
\* present exactly where the source sets them.
fields == <<
    [tag |-> [prefix |-> "", local |-> "link"], field |-> "source"],
    [tag |-> [prefix |-> "", local |-> "title"], field |-> "title"],
    [tag |-> [prefix |-> "", local |-> "category"], field |-> "category", multi |-> TRUE],
    [tag |-> [prefix |-> "", local |-> "pubDate"], field |-> "publication_date"],
    [tag |-> [prefix |-> "dc", local |-> "creator"], field |-> "author"],
    [tag |-> [prefix |-> "", local |-> "description"], field |-> "description", type |-> "html"],
    [tag |-> [prefix |-> "content", local |-> "encoded"], field |-> "content", type |-> "html"] >>

\* "multi" in field and field["multi"] == True
IsMulti(field) == "multi" \in DOMAIN field /\ field.multi = TRUE

\* "type" in field and field["type"] == "html"
IsHtml(field) == "type" \in DOMAIN field /\ field.type = "html"

\* The qualified name a path selects, resolved through the namespace table.
QName(tag) ==
    [ns |-> IF tag.prefix = "" THEN "" ELSE namespaces[tag.prefix], local |-> tag.local]

\* item.findall(field["tag"], namespaces=self.namespaces): the children of the
\* item with that qualified name, in document order.
FindAll(item, tag) == SelectSeq(item, LAMBDA e : e.tag = QName(tag))

\* ------------------------------------------------------ input universe
Element(prefix, local, text) == [tag |-> QName([prefix |-> prefix, local |-> local]), text |-> text]

Elements ==
    { Element("", "title", t) : t \in Texts }
    \cup { Element("", "category", t) : t \in Texts }
    \cup { Element("", "description", "a") }

\* Items with exactly n child elements.
ItemsOfSize(n) == [1..n -> Elements]

\* Well-formed documents of at most k items holding at most b elements in all.
RECURSIVE DocSet(_, _)
DocSet(k, b) ==
    IF k = 0 THEN { <<>> }
    ELSE { <<>> } \cup
         UNION { { <<it>> \o d : it \in ItemsOfSize(n), d \in DocSet(k - 1, b - n) } :
                 n \in 0..b }

RECURSIVE SeqsUpTo(_, _)
SeqsUpTo(S, n) ==
    IF n = 0 THEN { <<>> }
    ELSE SeqsUpTo(S, n - 1) \cup { Append(s, x) : s \in SeqsUpTo(S, n - 1), x \in S }

RECURSIVE SumLen(_)
SumLen(ss) == IF ss = <<>> THEN 0 ELSE Len(Head(ss)) + SumLen(Tail(ss))

\* Number of elements in a sequence of documents.
RECURSIVE ElementCount(_)
ElementCount(ds) == IF ds = <<>> THEN 0 ELSE SumLen(Head(ds)) + ElementCount(Tail(ds))


\* Raw field mappings handed to the parsing functions: any subset of the keys
\* content, description, title, category, empty values included.
OptionalKey(k, V) == { EmptyDict } \cup { k :> v : v \in V }

RawMappings ==
    { c @@ d @@ t @@ g :
        c \in OptionalKey("content", Texts \cup {""}),
        d \in OptionalKey("description", Texts \cup {""}),
        t \in OptionalKey("title", Texts \cup {""}),
        g \in OptionalKey("category", SeqsUpTo(Texts, MaxCategories)) }

\* ------------------------------------------------- parsing functions
\* The text function with its two tests in the other order.
default_parsing_function_text_description_first(content) ==
    IF "description" \in DOMAIN content THEN content["description"]
    ELSE IF "content" \in DOMAIN content THEN content["content"]
    ELSE ""

\* _default_parsing_function_text
default_parsing_function_text(content) ==
    IF "content" \in DOMAIN content THEN content["content"]
    ELSE IF "description" \in DOMAIN content THEN content["description"]
    ELSE ""

\* dict.__delitem__ guarded by "k in d"
DelKey(d, k) == [x \in DOMAIN d \ {k} |-> d[x]]

\* The metadata function deleting from its argument instead of from a copy.
default_parsing_function_meta_in_place(meta) ==
    LET r == [k \in DOMAIN meta \ {"content", "description"} |-> meta[k]]
    IN [ret |-> r, arg |-> r]

\* _default_parsing_function_meta.  ret is the returned dict, arg the state of
\* the argument dict when the call returns (r_meta = dict(meta) is a copy, so
\* the deletions do not reach the argument).
default_parsing_function_meta(meta) ==
    LET r_meta == meta
        r1 == IF "content" \in DOMAIN r_meta THEN DelKey(r_meta, "content") ELSE r_meta
        r2 == IF "description" \in DOMAIN r1 THEN DelKey(r1, "description") ELSE r1
    IN [ret |-> r2, arg |-> meta]

\* A caller-supplied parsing_function_text: the item's title, else "".
custom_text(item) == IF "title" \in DOMAIN item THEN item["title"] ELSE ""

\* A caller-supplied parsing_function_meta: the item's keys, no values.
custom_meta(item) == [ret |-> [k \in DOMAIN item |-> ""], arg |-> item]

\* parsing_function_text or _default_parsing_function_text
InitParsingFunctionText(override) ==
    IF override # NoneValue THEN override ELSE "_default_parsing_function_text"

\* parsing_function_meta or _default_parsing_function_meta
InitParsingFunctionMeta(override) ==
    IF override # NoneValue THEN override ELSE "_default_parsing_function_meta"

\* self.parsing_function_text(item)
CallText(fn, item) ==
    IF fn = "_default_parsing_function_text" THEN default_parsing_function_text(item)
    ELSE custom_text(item)

\* self.parsing_function_meta(item)
CallMeta(fn, item) ==
    IF fn = "_default_parsing_function_meta" THEN default_parsing_function_meta(item)
    ELSE custom_meta(item)

\* Document(page_content=text, metadata=metadata)
Document(text, metadata) == [page_content |-> text, metadata |-> metadata]

\* ---------------------------------------------------------- parse_rss
\* soup = BeautifulSoup(text, "html.parser"); text = soup.get_text().
\* The module binds the name BeautifulSoup nowhere (its imports are re,
\* itertools, typing, WebBaseLoader, Document and etree), so evaluating the
\* name raises NameError before any markup is read.
BeautifulSoupGetText(text) == [raised |-> "NameError", text |-> NoneValue]

\* if field["field"] not in meta: meta[field["field"]] = [] or ""
InitKey(meta, field) ==
    IF field.field \notin DOMAIN meta
    THEN meta @@ (field.field :> IF IsMulti(field) THEN <<>> ELSE "")
    ELSE meta

\* The multi-valued store starting from a fresh list at every match.
StoreMulti_fresh_list(meta, field, text) == [meta EXCEPT ![field.field] = << text >>]

\* meta[k] = meta[k] if "field" in field else []; meta[k].append(text)
StoreMulti(meta, field, text) ==
    LET kept == IF "field" \in DOMAIN field THEN meta[field.field] ELSE <<>>
    IN [meta EXCEPT ![field.field] = Append(kept, text)]

\* meta[field["field"]] = text
StoreSingle(meta, field, text) == [meta EXCEPT ![field.field] = text]

\* for element in element_list: ...   Result: the dict, and the exception
\* raised ("" when the loop ran to its end).
RECURSIVE ElementLoop(_, _, _)
ElementLoop(meta, field, element_list) ==
    IF element_list = <<>> THEN [raised |-> "", meta |-> meta]
    ELSE LET element == Head(element_list)
             soup == IF IsHtml(field) THEN BeautifulSoupGetText(element.text)
                     ELSE [raised |-> "", text |-> element.text]
         IN IF soup.raised # "" THEN [raised |-> soup.raised, meta |-> meta]
            ELSE LET m1 == InitKey(meta, field)
                     m2 == IF IsMulti(field) THEN StoreMulti(m1, field, soup.text)
                           ELSE StoreSingle(m1, field, soup.text)
                 IN ElementLoop(m2, field, Tail(element_list))

\* for field in self.fields: ...
RECURSIVE FieldLoop(_, _, _)
FieldLoop(meta, item, i) ==
    IF i > Len(fields) THEN [raised |-> "", meta |-> meta]
    ELSE LET r == ElementLoop(meta, fields[i], FindAll(item, fields[i].tag))
         IN IF r.raised # "" THEN r ELSE FieldLoop(r.meta, item, i + 1)

\* The body of parse_rss's loop for one item node: meta = {} ... yield meta.
ParseItem(item) == FieldLoop(EmptyDict, item, 1)

\* ------------------------------------------------------------- state
VARIABLES
    init_args,              \* the two parsing-function arguments __init__ was given
    web_paths,              \* self.web_paths: the feed locations, in listed order
    parsing_function_text,  \* self.parsing_function_text
    parsing_function_meta,  \* self.parsing_function_meta
    pc,                     \* position of load(): idle, fetch, items, returned, raised
    feed,                   \* position in web_paths of the feed of the outer loop
    root,                   \* the parsed document of the current feed
    item,                   \* position in root of the next item node of parse_rss
    meta,                   \* parse_rss's dict of the item node it handled last
    docs,                   \* load()'s running list of Documents
    result,                 \* <<docs>> once load() has returned, else << >>
    error,                  \* the exception that left load(), "" if none
    fetched,                \* the locations passed to session.get, in call order
    feeds,                  \* the documents parsed so far, one per parsed feed
    failures,               \* the fetch and parse failures so far: [pos, kind]
    raw,                    \* the mapping a parsing function is applied to
    raw0,                   \* that mapping as it was before any call
    text,                   \* the last result of parsing_function_text
    metadata,               \* the last result of parsing_function_meta
    step                    \* position in the loop body: text, meta, append, done

vars == << init_args, web_paths, parsing_function_text, parsing_function_meta, pc, feed, root,
           item, meta, docs, result, error, fetched, feeds, failures,
           raw, raw0, text, metadata, step >>

loadVars == << pc, feed, root, item, meta, result, error, fetched, feeds, failures >>

splitVars == << raw, raw0, text, metadata, step >>

config == << init_args, web_paths, parsing_function_text, parsing_function_meta >>

Overrides == { NoneValue, "custom" }

\* The assignments of __init__ to the parsing functions, for any two arguments.
\* (As written, __init__ passes header_template=header_template to the base
\* class, a name it binds nowhere; the model starts from the loader these
\* assignments describe.)
InitSelf ==
    \E t \in Overrides, m \in Overrides :
        /\ init_args = [parsing_function_text |-> t, parsing_function_meta |-> m]
        /\ parsing_function_text = InitParsingFunctionText(t)
        /\ parsing_function_meta = InitParsingFunctionMeta(m)

InitLoad ==
    /\ pc = "idle"
    /\ feed = 0
    /\ root = <<>>
    /\ item = 1
    /\ meta = EmptyDict
    /\ docs = <<>>
    /\ result = <<>>
    /\ error = ""
    /\ fetched = <<>>
    /\ feeds = <<>>
    /\ failures = <<>>

Init ==
    /\ web_paths \in { SubSeq(URLs, 1, n) : n \in 0..MaxFeeds }
    /\ InitSelf
    /\ InitLoad
    /\ raw = EmptyDict
    /\ raw0 = EmptyDict
    /\ text = ""
    /\ metadata = EmptyDict
    /\ step = "done"

\* ----------------------------------------------------------------- load
\* The append putting the new Document first.
DocsAppend_front(ds, doc) == << doc >> \o ds

\* docs.append(doc)
DocsAppend(ds, doc) == Append(ds, doc)

\* An exception caught inside the loop: the feed is skipped and the loop goes on.
Propagate_skip_feed(kind) == [pc |-> "fetch", error |-> "", feed |-> feed + 1]

\* What an exception raised inside the loop over self.web_paths does to load():
\* no handler encloses session.get, etree.fromstring or the item loop, so the
\* exception leaves load() from the feed at hand.
Propagate(kind) == [pc |-> "raised", error |-> kind, feed |-> feed]

\* What the end of the item loop does: the outer loop goes on to the next feed.
NextFeed == [pc |-> "fetch", error |-> "", feed |-> feed + 1]

\* docs: List[Document] = list(); the outer loop starts at the first location.
Load ==
    /\ pc = "idle"
    /\ pc' = "fetch"
    /\ feed' = 1
    /\ docs' = <<>>
    /\ UNCHANGED << root, item, meta, result, error, fetched, feeds, failures >>
    /\ UNCHANGED << config, splitVars >>

\* xml = self.session.get(feed) raises.
FetchFails ==
    /\ pc = "fetch"
    /\ feed <= Len(web_paths)
    /\ fetched' = Append(fetched, web_paths[feed])
    /\ failures' = Append(failures, [pos |-> feed, kind |-> "FetchError"])
    /\ LET n == Propagate("FetchError")
       IN pc' = n.pc /\ error' = n.error /\ feed' = n.feed
    /\ UNCHANGED << root, item, meta, docs, result, feeds >>
    /\ UNCHANGED << config, splitVars >>

\* session.get returns; root = etree.fromstring(xml) raises (not well-formed).
ParseFails ==
    /\ pc = "fetch"
    /\ feed <= Len(web_paths)
    /\ fetched' = Append(fetched, web_paths[feed])
    /\ failures' = Append(failures, [pos |-> feed, kind |-> "ParseError"])
    /\ LET n == Propagate("ParseError")
       IN pc' = n.pc /\ error' = n.error /\ feed' = n.feed
    /\ UNCHANGED << root, item, meta, docs, result, feeds >>
    /\ UNCHANGED << config, splitVars >>

\* session.get returns a well-formed document; root.findall(items_selector)
\* gives its item nodes in document order.
FetchParses ==
    /\ pc = "fetch"
    /\ feed <= Len(web_paths)
    /\ \E doc \in DocSet(MaxItems - SumLen(feeds), MaxElements - ElementCount(feeds)) :
        /\ root' = doc
        /\ feeds' = Append(feeds, doc)
    /\ fetched' = Append(fetched, web_paths[feed])
    /\ item' = 1
    /\ pc' = "items"
    /\ UNCHANGED << feed, meta, docs, result, error, failures >>
    /\ UNCHANGED << config, splitVars >>

\* One turn of "for item in self.parse_rss(root)": parse_rss builds the dict of
\* the next item node and yields it, load() appends its Document.
YieldItem ==
    /\ pc = "items"
    /\ item <= Len(root)
    /\ LET r == ParseItem(root[item])
       IN /\ r.raised = ""
          /\ meta' = r.meta
          /\ docs' = DocsAppend(docs,
                        Document(CallText(parsing_function_text, r.meta),
                                 CallMeta(parsing_function_meta, r.meta).ret))
    /\ item' = item + 1
    /\ UNCHANGED << pc, feed, root, result, error, fetched, feeds, failures >>
    /\ UNCHANGED << config, splitVars >>

\* parse_rss raises while it builds the dict of the next item node.
ItemRaises ==
    /\ pc = "items"
    /\ item <= Len(root)
    /\ LET r == ParseItem(root[item])
           n == Propagate(r.raised)
       IN /\ r.raised # ""
          /\ meta' = r.meta
          /\ pc' = n.pc /\ error' = n.error /\ feed' = n.feed
    /\ UNCHANGED << root, item, docs, result, fetched, feeds, failures >>
    /\ UNCHANGED << config, splitVars >>

\* parse_rss is exhausted: the outer loop takes the next feed.
EndFeed ==
    /\ pc = "items"
    /\ item > Len(root)
    /\ LET n == NextFeed
       IN pc' = n.pc /\ error' = n.error /\ feed' = n.feed
    /\ UNCHANGED << root, item, meta, docs, result, fetched, feeds, failures >>
    /\ UNCHANGED << config, splitVars >>

\* return docs
Return ==
    /\ pc = "fetch"
    /\ feed > Len(web_paths)
    /\ pc' = "returned"
    /\ result' = << docs >>
    /\ UNCHANGED << feed, root, item, meta, docs, error, fetched, feeds, failures >>
    /\ UNCHANGED << config, splitVars >>

Next ==
    \/ Load
    \/ FetchFails
    \/ ParseFails
    \/ FetchParses
    \/ YieldItem
    \/ ItemRaises
    \/ EndFeed
    \/ Return

Spec == Init /\ [][Next]_vars

\* ------------------------------------- the loop body on any raw mapping
\* The body of load()'s item loop, statement by statement, on a mapping drawn
\* from RawMappings in place of one parse_rss yielded.
InitSplit ==
    /\ web_paths = <<>>
    /\ InitSelf
    /\ InitLoad
    /\ raw \in RawMappings
    /\ raw0 = raw
    /\ text = ""
    /\ metadata = EmptyDict
    /\ step = "text"

\* text = self.parsing_function_text(item)
SplitText ==
    /\ step = "text"
    /\ text' = CallText(parsing_function_text, raw)
    /\ step' = "meta"
    /\ UNCHANGED << raw, raw0, metadata, docs >>
    /\ UNCHANGED << config, loadVars >>

\* metadata = self.parsing_function_meta(item)
SplitMeta ==
    /\ step = "meta"
    /\ LET r == CallMeta(parsing_function_meta, raw)
       IN metadata' = r.ret /\ raw' = r.arg
    /\ step' = "append"
    /\ UNCHANGED << raw0, text, docs >>
    /\ UNCHANGED << config, loadVars >>

\* docs.append(Document(page_content=text, metadata=metadata))
SplitAppend ==
    /\ step = "append"
    /\ docs' = DocsAppend(docs, Document(text, metadata))
    /\ step' = "done"
    /\ UNCHANGED << raw, raw0, text, metadata >>
    /\ UNCHANGED << config, loadVars >>

NextSplit ==
    \/ SplitText
    \/ SplitMeta
    \/ SplitAppend

SpecSplit == InitSplit /\ [][NextSplit]_vars

\* ---------------------------------------------------------- properties
\* All item nodes of a sequence of documents, in order.
RECURSIVE Flatten(_)
Flatten(ds) == IF ds = <<>> THEN <<>> ELSE Head(ds) \o Flatten(Tail(ds))

\* The texts of the children of an item node named local in namespace ns.
RECURSIVE TextsOf(_, _, _)
TextsOf(it, ns, local) ==
    IF it = <<>> THEN <<>>
    ELSE (IF Head(it).tag.ns = ns /\ Head(it).tag.local = local
          THEN << Head(it).text >> ELSE <<>>) \o TextsOf(Tail(it), ns, local)

\* The Document the loader's parsing functions make of an item node.
RecordOf(it) ==
    LET m == ParseItem(it).meta
    IN Document(CallText(parsing_function_text, m), CallMeta(parsing_function_meta, m).ret)

\* parse_rss raised while handling root[item].
ParseRaised == pc = "raised" /\ error = "NameError"

\* parse_rss has handled an item node of root; meta is the dict of that node.
Handled == ParseRaised \/ item > 1

LastItem == IF ParseRaised THEN root[item] ELSE root[item - 1]

FieldSet == { fields[i] : i \in 1..Len(fields) }

\* C1: when load() returns, the returned list holds exactly one Document per
\* item node of every listed feed, feed after feed in listed order and item
\* after item in document order, equal items kept.
C1_LoadReturnsAllItemsInOrder ==
    pc = "returned" =>
        /\ result = << docs >>
        /\ fetched = web_paths
        /\ Len(feeds) = Len(web_paths)
        /\ Len(docs) = Len(Flatten(feeds))
        /\ \A k \in 1..Len(docs) : docs[k] = RecordOf(Flatten(feeds)[k])

C1_Witness ==
    /\ pc = "returned"
    /\ Len(feeds) = 2
    /\ Len(feeds[1]) = 2
    /\ Len(feeds[2]) = 1
    /\ feeds[1][1] # feeds[1][2]
    /\ feeds[2][1] = feeds[1][1]
    /\ Len(docs) = 3
    /\ docs[1] # docs[2]
    /\ docs[3] = docs[1]

\* C2: once the fetch or the parse of the feed at position i has failed, load()
\* has raised that error, has returned nothing, and the locations fetched are
\* the first i of the list and no more.
C2_FeedFailureAbortsLoad ==
    failures # <<>> =>
        /\ Len(failures) = 1
        /\ pc = "raised"
        /\ error = failures[1].kind
        /\ result = <<>>
        /\ fetched = SubSeq(web_paths, 1, failures[1].pos)

C2_Witness ==
    /\ failures # <<>>
    /\ failures[1].pos = 1
    /\ failures[1].kind = "ParseError"
    /\ Len(web_paths) = 2
    /\ pc = "raised"

\* C3: whenever an error has left load(), the Documents accumulated are those
\* of all the items of a prefix of the feeds parsed: no feed has some but not
\* all of its items appended.
C3_ErrorAtFeedBoundary ==
    pc = "raised" =>
        \E k \in 0..Len(feeds) : Len(docs) = Len(Flatten(SubSeq(feeds, 1, k)))

\* C4: whenever the loop over parse_rss(root) is over, parse_rss has yielded
\* one mapping per item node of root, and has raised nothing.
C4_YieldsOnePerItem ==
    pc \in {"fetch", "returned", "raised"} =>
        /\ item - 1 = Len(root)
        /\ ~ParseRaised

\* C5: for an item node with k >= 1 category children, the value under
\* "category" is the sequence of the k texts of those children of that node,
\* in document order, equal texts kept; the default metadata function hands
\* the same sequence to the Document.
C5_CategoryCollectsAllInOrder ==
    Handled =>
        LET cats == TextsOf(LastItem, "", "category")
        IN Len(cats) >= 1 =>
            /\ "category" \in DOMAIN meta
            /\ Len(meta["category"]) = Len(cats)
            /\ meta["category"] = cats
            /\ (~ParseRaised /\ init_args.parsing_function_meta = NoneValue) =>
                   docs[Len(docs)].metadata["category"] = cats

C5_Witness ==
    /\ Handled
    /\ ~ParseRaised
    /\ init_args.parsing_function_meta = NoneValue
    /\ TextsOf(LastItem, "", "category") = << "b", "a" >>
    /\ docs[Len(docs)].metadata["category"] = << "b", "a" >>

\* C6: for every field that is not multi-valued and every item node with at
\* least one child matching it, a value is stored under the field's key, and
\* it is the text of the last matching child.
C6_LastMatchWins ==
    Handled =>
        \A f \in FieldSet :
            LET found == FindAll(LastItem, f.tag)
            IN (~IsMulti(f) /\ Len(found) >= 1) =>
                /\ f.field \in DOMAIN meta
                /\ ~IsHtml(f) => meta[f.field] = found[Len(found)].text

\* C7: for every item node and every field, the field's key is in the item's
\* mapping exactly when the item has a child matching the field.
C7_KeyPresentIffMatched ==
    Handled =>
        \A f \in FieldSet :
            f.field \in DOMAIN meta <=> Len(FindAll(LastItem, f.tag)) >= 1

C9_DefaultMetaSelector ==
    (step \in {"append", "done"} /\ init_args.parsing_function_meta = NoneValue) =>
        /\ DOMAIN metadata = DOMAIN raw0 \ {"content", "description"}
        /\ \A k \in DOMAIN metadata : metadata[k] = raw0[k]
        /\ DOMAIN raw = DOMAIN raw0
        /\ \A k \in DOMAIN raw0 : raw[k] = raw0[k]
        /\ init_args.parsing_function_text = NoneValue =>
               CallText(parsing_function_text, raw) = text

C9_Witness ==
    /\ step = "done"
    /\ init_args.parsing_function_meta = NoneValue
    /\ init_args.parsing_function_text = NoneValue
    /\ DOMAIN raw0 = {"content", "description", "title", "category"}
    /\ raw0["title"] = ""
    /\ raw0["category"] = <<>>
    /\ raw0["content"] = "a"
    /\ DOMAIN metadata = {"title", "category"}
    /\ text = "a"

\* C10: an item node with a child matching a rich-text field never makes
\* parse_rss raise: a value is stored under the field's key and the item is
\* yielded.
C10_RichTextNeverAborts ==
    (pc \in {"items", "raised"} /\ Handled) =>
        \A f \in FieldSet :
            (IsHtml(f) /\ Len(FindAll(LastItem, f.tag)) >= 1) =>
                /\ ~ParseRaised
                /\ f.field \in DOMAIN meta

====
